---- MODULE Spec2Model ----
(***************************************************************************)
(* Model of src/test-send-email.py: load_env_file, send_test_email and the *)
(* __main__ block that runs one after the other and exits.                 *)
(*                                                                         *)
(* A text (a Python str) is a sequence of symbols.  A symbol is one        *)
(* character; the three required variable names are kept as one symbol     *)
(* each, since no operation of the script looks inside an identifier.      *)
(* A line of .env is the text of the line without its line terminator      *)
(* (str.strip() at line 88 removes it with the other whitespace).          *)
(***************************************************************************)
EXTENDS Integers, Sequences, FiniteSets, TLC

VARIABLES
    envFile,      \* .env: whether it exists, and its lines
    env0,         \* os.environ when the process starts (never changes)
    output_dir,   \* output/daily-brief-*.html in glob order: the mtime of each file
    pc,           \* the statement the process is about to execute
    path,         \* the statements the process has reached so far, in order
    lineNo,       \* load_env_file: index of the next line of .env
    env,          \* os.environ
    stdout,       \* what print() has written, in order
    traceback,    \* the exception that left the process uncaught, or "none"
    html_files,   \* send_test_email: html_files
    latest_file,  \* send_test_email: latest_file (index in output_dir, 0 before)
    html_content, \* send_test_email: html_content
    missing_vars, \* send_test_email: missing_vars
    message,      \* send_test_email: message
    sock,         \* the SMTP connection: "none", "open" or "closed"
    opened,       \* number of SMTP connections opened so far
    session,      \* the commands the relay accepted on the connection
    handed,       \* the arguments of every server.sendmail call
    exc,          \* the exception in flight inside the try block, or "none"
    success,      \* the value send_test_email returned
    exitStatus    \* the process's exit status, -1 while it runs

vars == <<envFile, env0, output_dir, pc, path, lineNo, env, stdout, traceback,
          html_files, latest_file, html_content, missing_vars, message,
          sock, opened, session, handed, exc, success, exitStatus>>

sendVars == <<html_files, latest_file, html_content, missing_vars, message,
              sock, opened, session, handed, exc, success>>

----------------------------------------------------------------------------
(* Bounds of the model *)

MaxLineLen == 5       \* longest line of .env in the parsing runs
MaxValueLen == 9      \* longest value of .env in the masking runs
MaxEnvLines == 3      \* most lines of .env in the loading runs
MaxFiles == 3         \* most report files in output/
MaxMtime == 2         \* modification times are 1..MaxMtime

----------------------------------------------------------------------------
(* Python str operations used by load_env_file *)

Whitespace == {" "}

RECURSIVE lstrip(_)
lstrip(s) == IF Len(s) > 0 /\ s[1] \in Whitespace THEN lstrip(Tail(s)) ELSE s

RECURSIVE rstrip(_)
rstrip(s) ==
    IF Len(s) > 0 /\ s[Len(s)] \in Whitespace
    THEN rstrip(SubSeq(s, 1, Len(s) - 1))
    ELSE s

strip(s) == rstrip(lstrip(s))

startswith(s, c) == Len(s) > 0 /\ s[1] = c

endswith(s, c) == Len(s) > 0 /\ s[Len(s)] = c

contains(s, c) == \E i \in 1..Len(s) : s[i] = c

\* s.split(c, 1) for a text that contains c: the parts around the first c
split1(s, c) ==
    LET i == CHOOSE j \in 1..Len(s) : s[j] = c /\ \A h \in 1..(j - 1) : s[h] # c
    IN  <<SubSeq(s, 1, i - 1), SubSeq(s, i + 1, Len(s))>>

\* value[1:-1]
slice1m1(s) == SubSeq(s, 2, Len(s) - 1)

RECURSIVE repeat(_, _)
repeat(c, n) == IF n = 0 THEN <<>> ELSE <<c>> \o repeat(c, n - 1)

Min(a, b) == IF a <= b THEN a ELSE b

----------------------------------------------------------------------------
(* load_env_file *)

\* Path(".env"): whether it exists, and its lines
NoFile == [exists |-> FALSE, lines |-> <<>>]

File(ls) == [exists |-> TRUE, lines |-> ls]

EmptyEnv == [k \in {} |-> <<>>]

\* Remove quotes if present
unquote(value) ==
    IF startswith(value, "\"") /\ endswith(value, "\"") THEN slice1m1(value)
    ELSE IF startswith(value, "'") /\ endswith(value, "'") THEN slice1m1(value)
    ELSE value

\* The body of the loop up to the assignment: what one line parses to
ParseLine(raw) ==
    LET line == strip(raw) IN
    IF startswith(line, "#") \/ Len(line) = 0 \/ ~contains(line, "=")
    THEN [skip |-> TRUE, key |-> <<>>, value |-> <<>>]
    ELSE LET kv == split1(line, "=")
             key == strip(kv[1])
             value == unquote(strip(kv[2]))
         IN  IF Len(value) = 0
             THEN [skip |-> TRUE, key |-> <<>>, value |-> <<>>]
             ELSE [skip |-> FALSE, key |-> key, value |-> value]

\* os.environ[key] = value raises OSError (EINVAL) for an empty key
putenvRaises(key) == Len(key) = 0

SetenvClobber(e, key, value) == [k \in {key} |-> value]

SetenvDefault(e, key, value) ==
    [k \in DOMAIN e \cup {key} |-> IF k \in DOMAIN e THEN e[k] ELSE value]

\* os.environ[key] = value
Setenv(e, key, value) ==
    [k \in DOMAIN e \cup {key} |-> IF k = key THEN value ELSE e[k]]

MaskMax == 8

MaskedPreviewNoCap(value) == repeat("*", Len(value)) \o <<".", ".", ".">>

\* '*' * min(len(value), 8) followed by "..."
MaskedPreview(value) ==
    repeat("*", Min(Len(value), MaskMax)) \o <<".", ".", ".">>

\* Control passes to statement l
Goto(l) == pc' = l /\ path' = Append(path, l)

\* .env does not exist
NoEnvFile ==
    /\ pc = "load"
    /\ ~envFile.exists
    /\ stdout' = Append(stdout, <<"No .env file found">>)
    /\ Goto("glob")
    /\ UNCHANGED <<envFile, env0, output_dir, lineNo, env, traceback,
                   sendVars, exitStatus>>

\* One iteration of the loop over the lines of .env
LoadLine ==
    /\ pc = "load"
    /\ envFile.exists
    /\ lineNo <= Len(envFile.lines)
    /\ LET p == ParseLine(envFile.lines[lineNo]) IN
       IF p.skip
       THEN /\ lineNo' = lineNo + 1
            /\ UNCHANGED <<env, stdout, pc, path, traceback, exitStatus>>
       ELSE IF putenvRaises(p.key)
       THEN \* the exception is caught nowhere: traceback, exit status 1
            /\ traceback' = "OSError"
            /\ exitStatus' = 1
            /\ Goto("exited")
            /\ UNCHANGED <<env, stdout, lineNo>>
       ELSE /\ env' = Setenv(env, p.key, p.value)
            /\ stdout' = Append(stdout, <<"Loaded", p.key, MaskedPreview(p.value)>>)
            /\ lineNo' = lineNo + 1
            /\ UNCHANGED <<pc, path, traceback, exitStatus>>
    /\ UNCHANGED <<envFile, env0, output_dir, sendVars>>

\* The loop is over: load_env_file returns
LoadEnd ==
    /\ pc = "load"
    /\ envFile.exists
    /\ lineNo > Len(envFile.lines)
    /\ stdout' = Append(stdout, <<"Loaded environment variables from .env file">>)
    /\ Goto("glob")
    /\ UNCHANGED <<envFile, env0, output_dir, lineNo, env, traceback,
                   sendVars, exitStatus>>

NextLoad == NoEnvFile \/ LoadLine \/ LoadEnd

----------------------------------------------------------------------------
(* send_test_email *)

\* Lines 26-27: f.read().  A report file is named by its index in glob order and
\* its text is its own; the files are readable text and do not change during
\* the run
ReadText(f) == <<"<html>", f>>

\* f.stat().st_mtime
st_mtime(f) == output_dir[f]

\* list(output_dir.glob("daily-brief-*.html"))
glob == [i \in 1..Len(output_dir) |-> i]

\* max(iterable, key=...): a linear scan that keeps the first greatest item
RECURSIVE maxScan(_, _, _)
maxScan(files, best, i) ==
    IF i > Len(files) THEN best
    ELSE maxScan(files,
                 IF st_mtime(files[i]) > st_mtime(best) THEN files[i] ELSE best,
                 i + 1)

pymaxLast(files) == files[Len(files)]

pymax(files) == maxScan(files, files[1], 2)

required_vars ==
    << <<"GMAIL_USERNAME">>, <<"GMAIL_APP_PASSWORD">>, <<"EMAIL_RECIPIENT">> >>

notGetenvUnsetOnly(e, var) == var \notin DOMAIN e

\* not os.getenv(var): the variable is unset (None) or set to ''
notGetenv(e, var) == var \notin DOMAIN e \/ Len(e[var]) = 0

missingIn(e) ==
    LET Test(var) == notGetenv(e, var) IN SelectSeq(required_vars, Test)

NoMessage == [Subject |-> <<>>, From |-> <<>>, To |-> <<>>, parts |-> <<>>]

\* message.as_string(): the headers, then the payload of each part
as_string(m) ==
    [headers |-> <<m.Subject, m.From, m.To>>,
     body |-> [i \in 1..Len(m.parts) |-> m.parts[i].payload]]

GlobEnvFirst ==
    /\ pc = "glob"
    /\ html_files' = glob
    /\ Goto(IF Len(html_files') = 0 THEN "check_env" ELSE "select")
    /\ UNCHANGED <<envFile, env0, output_dir, lineNo, env, stdout, traceback,
                   latest_file, html_content, missing_vars, message,
                   sock, opened, session, handed, exc, success, exitStatus>>

\* Lines 15-20: find the report files; none is a failure
Glob ==
    /\ pc = "glob"
    /\ html_files' = glob
    /\ IF Len(html_files') = 0
       THEN /\ stdout' = Append(stdout, <<"No HTML files found">>)
            /\ success' = FALSE
            /\ Goto("main_exit")
       ELSE /\ Goto("select")
            /\ UNCHANGED <<stdout, success>>
    /\ UNCHANGED <<envFile, env0, output_dir, lineNo, env, traceback,
                   latest_file, html_content, missing_vars, message,
                   sock, opened, session, handed, exc, exitStatus>>

\* Lines 22-27: choose the latest file and read it
Select ==
    /\ pc = "select"
    /\ latest_file' = pymax(html_files)
    /\ stdout' = Append(stdout, <<"Using HTML file", latest_file'>>)
    /\ html_content' = ReadText(latest_file')
    /\ Goto("check_env")
    /\ UNCHANGED <<envFile, env0, output_dir, lineNo, env, traceback,
                   html_files, missing_vars, message,
                   sock, opened, session, handed, exc, success, exitStatus>>

\* Lines 29-38: the required environment variables
CheckEnv ==
    /\ pc = "check_env"
    /\ missing_vars' = missingIn(env)
    /\ IF Len(missing_vars') > 0
       THEN /\ stdout' = stdout
                         \o << <<"Missing environment variables", missing_vars'>> >>
                         \o [i \in 1..Len(missing_vars') |->
                                <<"your_value_here", missing_vars'[i]>>]
            /\ success' = FALSE
            /\ Goto("main_exit")
       ELSE /\ Goto("build")
            /\ UNCHANGED <<stdout, success>>
    /\ UNCHANGED <<envFile, env0, output_dir, lineNo, env, traceback,
                   html_files, latest_file, html_content, message,
                   sock, opened, session, handed, exc, exitStatus>>

\* Lines 40-62: the configuration and the message
BuildMessage ==
    /\ pc = "build"
    /\ stdout' = Append(stdout, <<"Sending test email", env[required_vars[1]],
                                  env[required_vars[3]]>>)
    /\ message' = [Subject |-> <<"Daily Brief - Test Email">>,
                   From |-> <<"Daily Brief Bot <">> \o env[required_vars[1]] \o <<">">>,
                   To |-> env[required_vars[3]],
                   parts |-> << [subtype |-> "html", payload |-> html_content] >>]
    /\ Goto("connect")
    /\ UNCHANGED <<envFile, env0, output_dir, lineNo, env, traceback,
                   html_files, latest_file, html_content, missing_vars,
                   sock, opened, session, handed, exc, success, exitStatus>>

\* Line 66: smtplib.SMTP(smtp_server, port).  The constructor connects: the
\* connection is refused, or it is made and the greeting is not 220 (the
\* constructor closes it and raises), or it is made and the block is entered
Connect ==
    /\ pc = "connect"
    /\ \E outcome \in {"refused", "greeting", "ok"} :
         CASE outcome = "refused" ->
                /\ exc' = "OSError"
                /\ Goto("except")
                /\ UNCHANGED <<sock, opened>>
           [] outcome = "greeting" ->
                /\ opened' = opened + 1
                /\ sock' = "closed"
                /\ exc' = "SMTPConnectError"
                /\ Goto("except")
           [] outcome = "ok" ->
                /\ opened' = opened + 1
                /\ sock' = "open"
                /\ Goto("starttls")
                /\ UNCHANGED exc
    /\ UNCHANGED <<envFile, env0, output_dir, lineNo, env, stdout, traceback,
                   html_files, latest_file, html_content, missing_vars, message,
                   session, handed, success, exitStatus>>

\* Line 67: server.starttls(context=context)
StartTls ==
    /\ pc = "starttls"
    /\ \E ok \in BOOLEAN :
         IF ok
         THEN /\ session' = Append(session, <<"STARTTLS">>)
              /\ Goto("login")
              /\ UNCHANGED exc
         ELSE /\ exc' = "SMTPException"
              /\ Goto("with_exit")
              /\ UNCHANGED session
    /\ UNCHANGED <<envFile, env0, output_dir, lineNo, env, stdout, traceback,
                   html_files, latest_file, html_content, missing_vars, message,
                   sock, opened, handed, success, exitStatus>>

\* Line 68: server.login(sender_email, password)
Login ==
    /\ pc = "login"
    /\ \E ok \in BOOLEAN :
         IF ok
         THEN /\ session' = Append(session, <<"AUTH", env[required_vars[1]],
                                             env[required_vars[2]]>>)
              /\ Goto("sendmail")
              /\ UNCHANGED exc
         ELSE /\ exc' = "SMTPAuthenticationError"
              /\ Goto("with_exit")
              /\ UNCHANGED session
    /\ UNCHANGED <<envFile, env0, output_dir, lineNo, env, stdout, traceback,
                   html_files, latest_file, html_content, missing_vars, message,
                   sock, opened, handed, success, exitStatus>>

\* Line 69: server.sendmail(sender_email, receiver_email, message.as_string())
Sendmail ==
    /\ pc = "sendmail"
    /\ LET args == <<env[required_vars[1]], env[required_vars[3]],
                     as_string(message)>> IN
       /\ handed' = Append(handed, args)
       /\ \E ok \in BOOLEAN :
            IF ok
            THEN /\ session' = Append(session, <<"MAIL">> \o args)
                 /\ UNCHANGED exc
            ELSE /\ exc' = "SMTPRecipientsRefused"
                 /\ UNCHANGED session
    /\ Goto("with_exit")
    /\ UNCHANGED <<envFile, env0, output_dir, lineNo, env, stdout, traceback,
                   html_files, latest_file, html_content, missing_vars, message,
                   sock, opened, success, exitStatus>>

WithExitLeak ==
    /\ pc = "with_exit"
    /\ \E reply \in {"221", "other", "disconnected"} :
         /\ sock' = IF reply = "other" THEN sock ELSE "closed"
         /\ session' = IF reply = "221" THEN Append(session, <<"QUIT">>) ELSE session
         /\ exc' = IF reply = "other" THEN "SMTPResponseException" ELSE exc
         /\ Goto(IF exc' = "none" THEN "success" ELSE "except")
    /\ UNCHANGED <<envFile, env0, output_dir, lineNo, env, stdout, traceback,
                   html_files, latest_file, html_content, missing_vars, message,
                   opened, handed, success, exitStatus>>

\* Lines 66-69, leaving the with block (normally or by an exception):
\* SMTP.__exit__ sends QUIT, raises SMTPResponseException when the reply is
\* not 221, passes over SMTPServerDisconnected, and closes in every case
WithExit ==
    /\ pc = "with_exit"
    /\ \E reply \in {"221", "other", "disconnected"} :
         /\ sock' = "closed"
         /\ session' = IF reply = "221" THEN Append(session, <<"QUIT">>) ELSE session
         /\ exc' = IF reply = "other" THEN "SMTPResponseException" ELSE exc
         /\ Goto(IF exc' = "none" THEN "success" ELSE "except")
    /\ UNCHANGED <<envFile, env0, output_dir, lineNo, env, stdout, traceback,
                   html_files, latest_file, html_content, missing_vars, message,
                   opened, handed, success, exitStatus>>

\* Lines 71-73
Success ==
    /\ pc = "success"
    /\ stdout' = Append(stdout, <<"HTML email sent successfully">>)
    /\ success' = TRUE
    /\ Goto("main_exit")
    /\ UNCHANGED <<envFile, env0, output_dir, lineNo, env, traceback,
                   html_files, latest_file, html_content, missing_vars, message,
                   sock, opened, session, handed, exc, exitStatus>>

ExceptRetry ==
    /\ pc = "except"
    /\ stdout' = Append(stdout, <<"Failed to send email", exc>>)
    /\ exc' = "none"
    /\ success' = FALSE
    /\ Goto("connect")
    /\ UNCHANGED <<envFile, env0, output_dir, lineNo, env, traceback,
                   html_files, latest_file, html_content, missing_vars, message,
                   sock, opened, session, handed, exitStatus>>

\* Lines 75-77: except Exception as e
Except ==
    /\ pc = "except"
    /\ stdout' = Append(stdout, <<"Failed to send email", exc>>)
    /\ exc' = "none"
    /\ success' = FALSE
    /\ Goto("main_exit")
    /\ UNCHANGED <<envFile, env0, output_dir, lineNo, env, traceback,
                   html_files, latest_file, html_content, missing_vars, message,
                   sock, opened, session, handed, exitStatus>>

\* Line 119: sys.exit(0 if success else 1)
Exit ==
    /\ pc = "main_exit"
    /\ exitStatus' = IF success THEN 0 ELSE 1
    /\ Goto("exited")
    /\ UNCHANGED <<envFile, env0, output_dir, lineNo, env, stdout, traceback,
                   sendVars>>

NextSend ==
    \/ Glob \/ Select \/ CheckEnv \/ BuildMessage
    \/ Connect \/ StartTls \/ Login \/ Sendmail \/ WithExit
    \/ Success \/ Except \/ Exit

Next == NextLoad \/ NextSend

----------------------------------------------------------------------------
(* The state of the process when load_env_file is called *)

InitProcess ==
    /\ pc = "load"
    /\ path = <<"load">>
    /\ lineNo = 1
    /\ stdout = <<>>
    /\ traceback = "none"
    /\ html_files = <<>>
    /\ latest_file = 0
    /\ html_content = <<>>
    /\ missing_vars = <<>>
    /\ message = NoMessage
    /\ sock = "none"
    /\ opened = 0
    /\ session = <<>>
    /\ handed = <<>>
    /\ exc = "none"
    /\ success = FALSE
    /\ exitStatus = -1

SeqsUpTo(S, n) == UNION {[1..m -> S] : m \in 0..n}

\* Parsing runs: .env holds one line, any text up to MaxLineLen over LineChars,
\* or an assignment of any value up to MaxValueLen over ValueChars
LineChars == {" ", "#", "=", "\"", "'", "a"}

ValueChars == {"a", "*"}

ParseFiles ==
    {NoFile}
    \cup {File(<<l>>) : l \in SeqsUpTo(LineChars, MaxLineLen)}
    \cup {File(<< <<"a", "=">> \o v >>) : v \in SeqsUpTo(ValueChars, MaxValueLen)}

InitParse ==
    /\ InitProcess
    /\ envFile \in ParseFiles
    /\ env = EmptyEnv
    /\ env0 = env
    /\ output_dir = <<>>

SpecParse == InitParse /\ [][NextLoad]_vars

\* Loading runs: .env holds up to MaxEnvLines of these lines, and the
\* environment already holds some of the keys
LoadLines ==
    { <<"K", "=", "a">>, <<"K", "=", "b">>, <<"K", "=">>,
      <<"J", "=", "\"", "a", "\"">>, <<"=", "a">>, <<"#", "K", "=", "a">> }

LoadEnvs ==
    UNION {[S -> {<<"a">>, <<"c">>}] : S \in SUBSET {<<"K">>, <<"J">>}}

InitLoad ==
    /\ InitProcess
    /\ envFile \in {NoFile} \cup {File(ls) : ls \in SeqsUpTo(LoadLines, MaxEnvLines)}
    /\ env \in LoadEnvs
    /\ env0 = env
    /\ output_dir = <<>>

SpecLoad == InitLoad /\ [][NextLoad]_vars

\* Whole runs: the environment holds any of the required variables, set or
\* empty; .env is one of RunFiles; output/ holds up to MaxFiles report files
RunEnvs ==
    UNION {[S -> {<<>>, <<"b">>}] :
             S \in SUBSET {required_vars[i] : i \in 1..Len(required_vars)}}

RunFiles ==
    { NoFile,
      File(<<>>),
      File(<< <<"GMAIL_USERNAME", "=", "a">> >>),
      File(<< <<"GMAIL_USERNAME", "=", "a">>,
              <<"GMAIL_APP_PASSWORD", "=", "'", "a", "'">>,
              <<"EMAIL_RECIPIENT", "=", "a">> >>),
      File(<< <<"EMAIL_RECIPIENT", "=", "\"", "\"">> >>),
      File(<< <<"=", "a">> >>) }

Init ==
    /\ InitProcess
    /\ envFile \in RunFiles
    /\ env \in RunEnvs
    /\ env0 = env
    /\ output_dir \in SeqsUpTo(1..MaxMtime, MaxFiles)

Spec == Init /\ [][Next]_vars

----------------------------------------------------------------------------
(* Properties *)

Range(s) == {s[i] : i \in DOMAIN s}

\* What print() wrote under a given heading
Printed(heading) == {i \in DOMAIN stdout : stdout[i][1] = heading}

RequiredNames ==
    {<<"GMAIL_USERNAME">>, <<"GMAIL_APP_PASSWORD">>, <<"EMAIL_RECIPIENT">>}

\* The required names that are unset or empty in the process environment
EnvMissing == {v \in RequiredNames : v \notin DOMAIN env \/ env[v] = <<>>}

\* C1: when a report file is found and a required variable is unset or empty,
\* no SMTP connection is opened, send_test_email returns False, the process
\* exits with status 1, and what is printed names exactly the unset or empty
\* variables.
C1_MissingReported ==
    (Len(html_files) > 0 /\ EnvMissing # {}) =>
        /\ opened = 0
        /\ sock = "none"
        /\ handed = <<>>
        /\ pc \in {"main_exit", "exited"} =>
             /\ ~success
             /\ Cardinality(Printed("Missing environment variables")) = 1
             /\ \A i \in Printed("Missing environment variables") :
                    /\ Range(stdout[i][2]) = EnvMissing
                    /\ Len(stdout[i][2]) = Cardinality(EnvMissing)
             /\ {stdout[i][2] : i \in Printed("your_value_here")} = EnvMissing
             /\ Cardinality(Printed("your_value_here")) = Cardinality(EnvMissing)
        /\ pc = "exited" => exitStatus = 1

C1_Witness ==
    /\ pc = "exited"
    /\ Len(html_files) > 0
    /\ Cardinality(EnvMissing) = 2
    /\ \E v \in EnvMissing : v \in DOMAIN env
    /\ \E v \in EnvMissing : v \notin DOMAIN env
    /\ Printed("Missing environment variables") # {}

\* C2: every HTML body handed to server.sendmail is the text of a report file
\* whose modification time is at least that of every other report file, and is
\* the text of no strictly older file.
C2_LatestTransmitted ==
    \A i \in DOMAIN handed :
        LET body == handed[i][3].body IN
        /\ Len(body) = 1
        /\ \E f \in DOMAIN output_dir :
              /\ body[1] = ReadText(f)
              /\ \A g \in DOMAIN output_dir : output_dir[g] <= output_dir[f]
        /\ \A f \in DOMAIN output_dir :
              (\E g \in DOMAIN output_dir : output_dir[g] > output_dir[f])
                  => body[1] # ReadText(f)

C2_Witness ==
    /\ Len(handed) = 1
    /\ Len(output_dir) >= 3
    /\ output_dir[1] < output_dir[2]
    /\ output_dir[3] < output_dir[2]
    /\ \E i \in DOMAIN session : session[i][1] = "MAIL"

\* server.sendmail returned without raising
SendmailCompleted == \E i \in DOMAIN session : session[i][1] = "MAIL"

\* C3: the process exits with status 0 if and only if the sendmail call
\* completed without raising, and with status 1 in every other run that ends.
C3_ExitZeroIffSendmail ==
    pc = "exited" =>
        /\ exitStatus \in {0, 1}
        /\ (exitStatus = 0) <=> SendmailCompleted

\* C4: when no report file matches, send_test_email goes no further than the
\* search: it prints the failure and returns False, the process exits with
\* status 1, the required variables are never checked and no SMTP connection
\* is opened, whatever the environment holds.
C4_NoReportFails ==
    Len(output_dir) = 0 =>
        /\ pc \in {"load", "glob", "main_exit", "exited"}
        /\ opened = 0
        /\ sock = "none"
        /\ Printed("Missing environment variables") = {}
        /\ (pc \in {"main_exit", "exited"} /\ traceback = "none") =>
              /\ ~success
              /\ Cardinality(Printed("No HTML files found")) = 1
        /\ pc = "exited" => exitStatus = 1

C4_Witness ==
    /\ pc = "exited"
    /\ Len(output_dir) = 0
    /\ traceback = "none"
    /\ EnvMissing # {}
    /\ exitStatus = 1
    /\ Printed("No HTML files found") # {}

\* What the claim's rules make of one line of .env: no entry, or an entry
ClaimEntry(raw) ==
    LET t == strip(raw)
        ignored == t = <<>> \/ t[1] = "#" \/ \A i \in DOMAIN t : t[i] # "="
        eq == CHOOSE i \in DOMAIN t : t[i] = "=" /\ \A j \in 1..(i - 1) : t[j] # "="
        k == strip(SubSeq(t, 1, eq - 1))
        w == strip(SubSeq(t, eq + 1, Len(t)))
        quoted == /\ Len(w) >= 2
                  /\ w[1] \in {"\"", "'"}
                  /\ w[Len(w)] = w[1]
        v == IF quoted THEN SubSeq(w, 2, Len(w) - 1) ELSE w
    IN  IF ignored THEN [entry |-> FALSE, key |-> <<>>, value |-> <<>>]
        ELSE IF v = <<>> THEN [entry |-> FALSE, key |-> <<>>, value |-> <<>>]
        ELSE [entry |-> TRUE, key |-> k, value |-> v]

\* C5: once a one-line .env has been processed, the environment is the one
\* before with the line's entry added when the claim's rules give the line an
\* entry (quotes removed, value trimmed), and is unchanged when they give it
\* none (blank, comment, no =, empty value).
C5_LineParsed ==
    (envFile.exists /\ Len(envFile.lines) = 1 /\ pc # "load") =>
        LET c == ClaimEntry(envFile.lines[1]) IN
        /\ traceback = "none"
        /\ IF c.entry
           THEN /\ DOMAIN env = DOMAIN env0 \cup {c.key}
                /\ env[c.key] = c.value
                /\ \A k \in DOMAIN env0 \ {c.key} : env[k] = env0[k]
           ELSE env = env0

\* load_env_file returned
Returned == pc # "load" /\ traceback = "none"

\* The keys .env gives a non-empty parsed value, and the last such line of each
FileLines(k) ==
    {i \in DOMAIN envFile.lines :
        LET p == ParseLine(envFile.lines[i]) IN ~p.skip /\ p.key = k}

FileKeys ==
    {ParseLine(envFile.lines[i]).key :
        i \in {j \in DOMAIN envFile.lines : ~ParseLine(envFile.lines[j]).skip}}

LastValue(k) ==
    LET last == CHOOSE i \in FileLines(k) : \A j \in FileLines(k) : j <= i
    IN  ParseLine(envFile.lines[last]).value

\* C6 as stated: every key that has a value before load_env_file runs holds
\* the same value after it returns.
C6_NoOverride ==
    Returned => \A k \in DOMAIN env0 : k \in DOMAIN env /\ env[k] = env0[k]

\* C6 as amended: every key that has a value before load_env_file runs still
\* has one after it returns: the value before when .env gives the key no
\* non-empty parsed value, and otherwise the parsed value of the last line of
\* .env that gives it one.
C6_OverrideOnlyFileKeys ==
    Returned =>
        \A k \in DOMAIN env0 :
            /\ k \in DOMAIN env
            /\ env[k] = IF k \in FileKeys THEN LastValue(k) ELSE env0[k]

C6_Witness ==
    /\ Returned
    /\ \E k \in DOMAIN env0 : k \in FileKeys /\ env[k] # env0[k]
    /\ \E k \in DOMAIN env0 : k \notin FileKeys /\ env[k] = env0[k]

\* C7: after load_env_file returns, every key that .env gives a non-empty
\* parsed value maps to the parsed value of the last such line, and every
\* other key (one that appears only with an empty value included) is set or
\* unset as before, with the value it had.
C7_FileWins ==
    Returned =>
        /\ \A k \in FileKeys : k \in DOMAIN env /\ env[k] = LastValue(k)
        /\ \A k \in (DOMAIN env \cup DOMAIN env0) \ FileKeys :
              /\ k \in DOMAIN env0
              /\ k \in DOMAIN env
              /\ env[k] = env0[k]

C7_Witness ==
    /\ Returned
    /\ envFile.lines = << <<"K", "=", "a">>, <<"K", "=", "b">>, <<"K", "=">> >>
    /\ <<"K">> \in DOMAIN env0
    /\ env0[<<"K">>] = <<"c">>
    /\ env[<<"K">>] = <<"b">>
    /\ <<"J">> \in DOMAIN env0

\* The previews printed, each with the value it was printed for (.env of one line)
Previews ==
    {<<env[stdout[i][2]], stdout[i][3]>> : i \in Printed("Loaded")}

\* min(n, 8) mask characters and the suffix
ClaimMask(n) == [j \in 1..((IF n < 8 THEN n ELSE 8) + 3) |->
                    IF j <= (IF n < 8 THEN n ELSE 8) THEN "*" ELSE "."]

\* C8 as stated: the preview of a loaded value is min(length, 8) mask
\* characters and the suffix, and no character of the value occurs in it.
C8_NoCharacterOfValue ==
    (envFile.exists /\ Len(envFile.lines) = 1) =>
        \A pv \in Previews :
            /\ pv[2] = ClaimMask(Len(pv[1]))
            /\ Range(pv[2]) \cap Range(pv[1]) = {}

\* C8 as amended: the preview of a loaded value is min(length, 8) mask
\* characters and the suffix; a character of the value occurs in it only when
\* it is the mask character or a character of the suffix, so the preview shows
\* at most 8 positions of the value and none of its other characters.
C8_MaskOnly ==
    (envFile.exists /\ Len(envFile.lines) = 1) =>
        \A pv \in Previews :
            /\ pv[2] = ClaimMask(Len(pv[1]))
            /\ Range(pv[2]) \cap Range(pv[1]) \subseteq {"*", "."}
            /\ Len(pv[2]) <= 8 + 3

C8_Witness ==
    /\ envFile.exists
    /\ Len(envFile.lines) = 1
    /\ \E pv \in Previews :
          /\ Len(pv[1]) > 8
          /\ "a" \in Range(pv[1])
          /\ Len(pv[2]) = 11

\* C9: at most one SMTP connection is opened in a run, and once the with
\* block is left (sent, or failed in starttls, login, sendmail or the
\* constructor) the connection is not open: it is closed before
\* send_test_email returns and stays so.
C9_ConnectionScoped ==
    /\ opened <= 1
    /\ opened = 0 <=> sock = "none"
    /\ pc \in {"success", "except", "main_exit", "exited"} => sock # "open"

C9_Witness ==
    /\ pc = "exited"
    /\ opened = 1
    /\ sock = "closed"
    /\ \E i \in Printed("Failed to send email") :
          stdout[i][2] = "SMTPAuthenticationError"

\* The stage of the pipeline a state of the run is in
StageOf(p, ok, status) ==
    CASE p = "load" -> "Idle"
      [] p \in {"glob", "select"} -> "ConfigLoaded"
      [] p = "check_env" -> "ArtifactFound"
      [] p \in {"build", "connect", "starttls", "login", "sendmail",
                "with_exit", "success", "except"} -> "Validated"
      [] p = "main_exit" -> IF ok THEN "Sent" ELSE "Failed"
      [] p = "exited" -> IF status = 0 THEN "Sent" ELSE "Failed"

StageAfter(st) ==
    CASE st = "Idle" -> "ConfigLoaded"
      [] st = "ConfigLoaded" -> "ArtifactFound"
      [] st = "ArtifactFound" -> "Validated"
      [] st = "Validated" -> "Sent"
      [] OTHER -> "none"

\* The order of the statements of the run
PcRank(p) ==
    CASE p = "load" -> 0
      [] p = "glob" -> 1
      [] p = "select" -> 2
      [] p = "check_env" -> 3
      [] p = "build" -> 4
      [] p = "connect" -> 5
      [] p = "starttls" -> 6
      [] p = "login" -> 7
      [] p = "sendmail" -> 8
      [] p = "with_exit" -> 9
      [] p \in {"success", "except"} -> 10
      [] p = "main_exit" -> 11
      [] p = "exited" -> 12

\* The steps of the run so far: forward only in statement order, each to the
\* same stage, the next one or Failed, and none out of Sent or Failed
C10_Steps ==
    /\ path[1] = "load"
    /\ path[Len(path)] = pc
    /\ \A i \in 1..(Len(path) - 1) :
          LET st == StageOf(path[i], success, exitStatus)
              st2 == StageOf(path[i + 1], success, exitStatus)
          IN  /\ PcRank(path[i + 1]) > PcRank(path[i])
              /\ \/ st2 = st
                 \/ st2 = StageAfter(st)
                 \/ st2 = "Failed" /\ st \notin {"Sent", "Failed"}

\* What each stage rests on, and that a run that has not ended can go on
C10_Order ==
    LET st == StageOf(pc, success, exitStatus) IN
    /\ st = "Idle" => (html_files = <<>> /\ Printed("No HTML files found") = {})
    /\ Len(html_files) > 0 => st # "Idle"
    /\ st \in {"Idle", "ConfigLoaded"} =>
          (latest_file = 0 /\ Printed("Missing environment variables") = {})
    /\ st \in {"Idle", "ConfigLoaded", "ArtifactFound"} =>
          (opened = 0 /\ sock = "none" /\ session = <<>> /\ handed = <<>>)
    /\ st \in {"Validated", "Sent"} => (latest_file # 0 /\ EnvMissing = {})
    /\ opened > 0 => (latest_file # 0 /\ EnvMissing = {})
    /\ st = "Sent" => SendmailCompleted
    /\ Cardinality(Printed("Failed to send email")) <= 1
    /\ pc = "exited" => ((st = "Sent" /\ exitStatus = 0) \/ (st = "Failed" /\ exitStatus = 1))
    /\ \/ pc = "exited"
       \/ ENABLED NextSend
       \/ ENABLED NoEnvFile
       \/ ENABLED LoadEnd
       \/ pc = "load" /\ envFile.exists /\ lineNo <= Len(envFile.lines)

\* C10: every run goes Idle, ConfigLoaded, ArtifactFound, Validated, then
\* Sent or Failed, in that order: loading ends before discovery, discovery
\* before validation, validation before any network action; no step goes
\* back, nothing follows Sent or Failed, a run leaves a stage to the next one
\* or to Failed, and a run that has not ended in Sent or Failed can go on.
C10_LinearPipeline == C10_Steps /\ C10_Order

C10_Witness ==
    /\ pc = "exited"
    /\ exitStatus = 0
    /\ Len(envFile.lines) = 3
    /\ env0 = EmptyEnv
    /\ path = <<"load", "glob", "select", "check_env", "build", "connect",
                "starttls", "login", "sendmail", "with_exit", "success",
                "main_exit", "exited">>

====
